---- MODULE Spec2Model ----
(***************************************************************************)
(* Model of dataanalysis/brainmaptools.py: the matrix builders             *)
(* (build_jaccard, build_n_coactives_array), the significance filter       *)
(* (significant_connection_threshold), the graph thresholders              *)
(* (applycost_to_g, remove_edges_by_weight) and the influence estimator    *)
(* (build_influence_matrix).                                               *)
(*                                                                         *)
(* A caller holds one input object (a list of key code lists, a count      *)
(* matrix, or a weighted graph) and calls the functions on it; `call` and  *)
(* `result` record the last call and its outcome.                          *)
(*                                                                         *)
(* Floating point values are modelled as exact rationals <<n, d>> in       *)
(* lowest terms with d > 0, extended with the IEEE specials that numpy     *)
(* produces on division by zero: <<0,0>> is NaN, <<1,0>> is +inf and       *)
(* <<-1,0>> is -inf.  Rounding is not modelled.  The thresholds of the     *)
(* significance filter are even integers, so that -2*log10(r) > threshold  *)
(* is the rational comparison r < 10^(-threshold/2).                       *)
(***************************************************************************)
EXTENDS Integers, Sequences, FiniteSets, TLC

\* ------------------------------------------------------------ bounds
\* identifiers (key codes) are 1..MaxId
MaxId == 2
\* longest key code list of one region (a list may repeat an identifier)
MaxLen == 2
\* most regions (rows of a matrix)
NRegions == 2
\* largest entry of a directly supplied count matrix
MaxCount == 2
\* largest total_contrasts passed to the significance filter
MaxContrasts == 4
\* thresholds passed to the significance filter are 2*t, t in -1..MaxThreshold
MaxThreshold == 1
\* nodes of a graph are 1..NNodes
NNodes == 3
\* edge weights are 1..MaxWeight
MaxWeight == 3
\* costs are c/CostDen for c in 0..CostDen
CostDen == 4

\* ------------------------------------------------------------ numbers
Abs(i) == IF i < 0 THEN -i ELSE i

Sgn(i) == IF i < 0 THEN -1 ELSE IF i > 0 THEN 1 ELSE 0

RECURSIVE GCD(_, _)
GCD(a, b) == IF b = 0 THEN a ELSE GCD(b, a % b)

RECURSIVE Pow(_, _)
Pow(b, e) == IF e = 0 THEN 1 ELSE b * Pow(b, e - 1)

RECURSIVE Choose(_, _)
Choose(n, k) == IF k = 0 \/ k = n THEN 1 ELSE Choose(n - 1, k - 1) + Choose(n - 1, k)

NaN == <<0, 0>>
PosInf == <<1, 0>>
NegInf == <<-1, 0>>

\* the float n/d, d # 0, in lowest terms
Frac(n, d) ==
    LET g == GCD(Abs(n), Abs(d))
    IN  <<Sgn(d) * (n \div g), Abs(d) \div g>>

\* float(i) of an integer
float(i) == <<i, 1>>

IsNaN(q) == q = NaN
IsFinite(q) == q[2] # 0
IsInf(q) == q[2] = 0 /\ q[1] # 0

\* numpy float64 true division: x/0 gives nan or +-inf (a RuntimeWarning), never raises
FDiv(a, b) ==
    IF IsNaN(a) \/ IsNaN(b) THEN NaN
    ELSE IF IsInf(a) THEN (IF IsInf(b) THEN NaN
                           ELSE <<Sgn(a[1]) * (IF b[1] < 0 THEN -1 ELSE 1), 0>>)
    ELSE IF IsInf(b) THEN float(0)
    ELSE IF b[1] = 0 THEN (IF a[1] = 0 THEN NaN ELSE <<Sgn(a[1]), 0>>)
    ELSE Frac(a[1] * b[2], a[2] * b[1])

FMul(a, b) ==
    IF IsNaN(a) \/ IsNaN(b) THEN NaN
    ELSE IF IsInf(a) \/ IsInf(b)
         THEN (IF a[1] = 0 \/ b[1] = 0 THEN NaN ELSE <<Sgn(a[1]) * Sgn(b[1]), 0>>)
    ELSE Frac(a[1] * b[1], a[2] * b[2])

FSub(a, b) ==
    IF IsNaN(a) \/ IsNaN(b) THEN NaN
    ELSE IF IsInf(a) THEN (IF a = b THEN NaN ELSE a)
    ELSE IF IsInf(b) THEN <<-b[1], 0>>
    ELSE Frac(a[1] * b[2] - b[1] * a[2], a[2] * b[2])

FNeg(a) == <<-a[1], a[2]>>

\* a <= b on floats; any comparison with NaN is false
FLeq(a, b) ==
    /\ ~IsNaN(a)
    /\ ~IsNaN(b)
    /\ IF IsInf(a) \/ IsInf(b)
       THEN a = b \/ a = NegInf \/ b = PosInf
       ELSE a[1] * b[2] <= b[1] * a[2]

\* ------------------------------------------------------------ outcomes
\* a call returns a value or raises
Return(v) == [kind |-> "return", val |-> v]
Raise(e) == [kind |-> "raise", val |-> e]
NoResult == [kind |-> "none", val |-> "none"]

\* ------------------------------------------------------------ matrix builder
\* set(x) of a Python list
set(x) == {x[i] : i \in DOMAIN x}

\* (the union counted as len(set(x)) + len(set(y)))
jaccard_entry_sum(x, y) ==
    LET intersect == Cardinality(set(x) \cap set(y))
        union == Cardinality(set(x)) + Cardinality(set(y))
    IN  IF union # 0 THEN FDiv(float(intersect), float(union)) ELSE float(0)

jaccard_entry(x, y) ==
    LET intersect == Cardinality(set(x) \cap set(y))
        union == Cardinality(set(x) \cup set(y))
    IN  IF union # 0 THEN FDiv(float(intersect), float(union)) ELSE float(0)

\* np.zeros(shape=array_dims) filled cell by cell in the two loops
build_jaccard(kc) ==
    [col_idx \in 1..Len(kc) |-> [row_idx \in 1..Len(kc) |->
        jaccard_entry(kc[col_idx], kc[row_idx])]]

\* (the elements of the list x found in y, counted without set(x))
coactives_entry_list(x, y) == Cardinality({i \in DOMAIN x : x[i] \in set(y)})

coactives_entry(x, y) == Cardinality(set(x) \cap set(y))

build_n_coactives_array(kc) ==
    [col_idx \in 1..Len(kc) |-> [row_idx \in 1..Len(kc) |->
        coactives_entry(kc[col_idx], kc[row_idx])]]

\* ------------------------------------------------------------ objects
\* The caller's object is at reference "arg"; .copy() allocates a second object
\* at "copy" and returns its reference.  The state of "arg" after a call is what
\* the caller sees of the object it passed.
Heap(obj) == "arg" :> obj

ArrayCopy(heap, ref) == [heap |-> heap @@ ("copy" :> heap[ref]), ref |-> "copy"]

\* ------------------------------------------------------------ influence estimator
\* arr.diagonal()
diagonal_of(arr) == [i \in 1..Len(arr) |-> arr[i][i]]

\* arr / diagonal[:, np.newaxis]: every row i divided by diagonal[i]
DivideByRow(arr, diagonal) ==
    [i \in 1..Len(arr) |-> [j \in 1..Len(arr) |->
        FDiv(float(arr[i][j]), float(diagonal[i]))]]

\* arr / diagonal: every column j divided by diagonal[j]
DivideByColumn(arr, diagonal) ==
    [i \in 1..Len(arr) |-> [j \in 1..Len(arr) |->
        FDiv(float(arr[i][j]), float(diagonal[j]))]]

MatSub(a, b) == [i \in 1..Len(a) |-> [j \in 1..Len(a) |-> FSub(a[i][j], b[i][j])]]

\* (a and b exchanged)
build_influence_matrix_swapped(arr) ==
    LET diagonal == diagonal_of(arr)
        a == DivideByColumn(arr, diagonal)
        b == DivideByRow(arr, diagonal)
    IN  [arg |-> arr, ret |-> Return(MatSub(a, b))]

\* (with the np.triu line of the source in force)
build_influence_matrix_triu(arr) ==
    LET diagonal == diagonal_of(arr)
        d == MatSub(DivideByRow(arr, diagonal), DivideByColumn(arr, diagonal))
    IN  [arg |-> arr,
         ret |-> Return([i \in 1..Len(arr) |-> [j \in 1..Len(arr) |->
                            IF i <= j THEN d[i][j] ELSE float(0)]])]

build_influence_matrix(arr) ==
    LET c == ArrayCopy(Heap(arr), "arg")
        n_coactive_mat == c.heap[c.ref]
        diagonal == diagonal_of(n_coactive_mat)
        a == DivideByRow(n_coactive_mat, diagonal)
        b == DivideByColumn(n_coactive_mat, diagonal)
        influence_mat == MatSub(a, b)
    IN  [arg |-> c.heap["arg"], ret |-> Return(influence_mat)]

\* ------------------------------------------------------------ significance filter
\* scipy.stats.binom.pmf(k, n, p): nan when the arguments are not a distribution,
\* 0 outside the support
binom_pmf(k, n, p) ==
    IF n < 0 \/ ~IsFinite(p) \/ ~FLeq(float(0), p) \/ ~FLeq(p, float(1)) THEN NaN
    ELSE IF k < 0 \/ k > n THEN float(0)
    ELSE Frac(Choose(n, k) * Pow(p[1], k) * Pow(p[2] - p[1], n - k), Pow(p[2], n))

\* null/alternate of the pair (x, y)
likelihood_ratio(t, x, y, total_contrasts) ==
    LET p == FDiv(float(t[x][x]), float(total_contrasts))
        null == FMul(binom_pmf(t[x][y], t[y][y], p),
                     binom_pmf(t[x][x] - t[x][y], total_contrasts - t[y][y], p))
        p_one == FDiv(float(t[x][y]), float(t[y][y]))
        p_zero == FDiv(float(t[x][x] - t[x][y]), float(total_contrasts - t[y][y]))
        alternate == FMul(binom_pmf(t[x][y], t[y][y], p_one),
                          binom_pmf(t[x][x] - t[x][y], total_contrasts - t[y][y], p_zero))
    IN  FDiv(null, alternate)

\* math.log10 raises ValueError on 0, on a negative number and on -inf
Log10Raises(r) == ~IsNaN(r) /\ r # PosInf /\ r[1] <= 0

\* -2*math.log10(r) > threshold for a ratio r on which log10 returns and an even
\* integer threshold: nan compares false, log10(inf) = inf gives -inf, and for
\* 0 < r < inf the test is r < 10^(-threshold/2)
PValExceeds(r, threshold) ==
    LET e == threshold \div 2
    IN  /\ IsFinite(r)
        /\ IF e >= 0 THEN r[1] * Pow(10, e) < r[2]
                     ELSE r[1] < r[2] * Pow(10, -e)

\* the two loops over x and y (i counts the pairs in row-major order) on the
\* array at ref
RECURSIVE threshold_loop(_, _, _, _, _)
threshold_loop(heap, ref, total_contrasts, threshold, i) ==
    LET n == Len(heap[ref])
        x == (i \div n) + 1
        y == (i % n) + 1
        r == likelihood_ratio(heap[ref], x, y, total_contrasts)
    IN  IF i >= n * n THEN [heap |-> heap, exc |-> "none"]
        ELSE IF x = y THEN threshold_loop(heap, ref, total_contrasts, threshold, i + 1)
        ELSE IF Log10Raises(r) THEN [heap |-> heap, exc |-> "ValueError"]
        ELSE IF PValExceeds(r, threshold)
             THEN threshold_loop([heap EXCEPT ![ref][x][y] = 0], ref,
                                 total_contrasts, threshold, i + 1)
        ELSE threshold_loop(heap, ref, total_contrasts, threshold, i + 1)

significant_connection_threshold(in_array, total_contrasts, threshold) ==
    LET c == ArrayCopy(Heap(in_array), "arg")
        thresh_array == c.ref
        done == threshold_loop(c.heap, thresh_array, total_contrasts, threshold, 0)
    IN  [arg |-> done.heap["arg"],
         ret |-> IF done.exc = "none" THEN Return(done.heap[thresh_array])
                 ELSE Raise(done.exc)]

\* A matrix of counts of contrasts out of total_contrasts: symmetric, a
\* co-activation count no larger than either region's own count, and no more
\* contrasts in two regions together than there are.
IsCountTable(arr, total_contrasts) ==
    \A i, j \in 1..Len(arr) :
        /\ arr[i][j] = arr[j][i]
        /\ arr[i][j] <= arr[i][i]
        /\ arr[i][i] + arr[j][j] - arr[i][j] <= total_contrasts

\* ------------------------------------------------------------ graph thresholder
\* A graph is its node set and the weight of each edge, an edge being the set
\* of its two end nodes (no self loops).
Edges(g) == DOMAIN g.weight

number_of_nodes(g) == Cardinality(g.nodes)

\* nx.complete_graph(n).number_of_edges()
complete_graph_edges(n) == (n * (n - 1)) \div 2

degree(g, x) == Cardinality({e \in Edges(g) : x \in e})

\* (G_cost = G: a second name for the same object)
GraphAlias(heap, ref) == [heap |-> heap, ref |-> ref]

GraphCopy(heap, ref) == [heap |-> heap @@ ("copy" :> heap[ref]), ref |-> "copy"]

\* G.remove_edges_from(edgelist)
remove_edges_from(g, edgelist) ==
    [nodes |-> g.nodes, weight |-> [e \in Edges(g) \ edgelist |-> g.weight[e]]]

\* sorted(weights, reverse=1) of the weights of the edges in es
RECURSIVE sorted_weights_of(_, _)
sorted_weights_of(g, es) ==
    IF es = {} THEN <<>>
    ELSE LET top == CHOOSE e \in es : \A f \in es : g.weight[e] >= g.weight[f]
         IN  <<g.weight[top]>> \o sorted_weights_of(g, es \ {top})

\* int(n * cost) for a cost c/d >= 0: the product truncated
int_times(n, cost) == (n * cost[1]) \div cost[2]

applycost_to_g(g, cost) ==
    LET n_edges_keep == int_times(complete_graph_edges(number_of_nodes(g)), cost)
        sorted_weights == sorted_weights_of(g, Edges(g))
    IN  \* sorted_weights[n_edges_keep+1], indexed from 0
        IF n_edges_keep + 2 > Len(sorted_weights)
        THEN [arg |-> g, ret |-> Raise("IndexError")]
        ELSE LET thresh == sorted_weights[n_edges_keep + 2]
                 remove_edgelist == {e \in Edges(g) : g.weight[e] < thresh}
                 c == GraphCopy(Heap(g), "arg")
                 G_cost == c.ref
                 heap == [c.heap EXCEPT ![G_cost] = remove_edges_from(@, remove_edgelist)]
             IN  [arg |-> heap["arg"], ret |-> Return(heap[G_cost])]

remove_edges_by_weight(g, max_weight) ==
    LET c == GraphCopy(Heap(g), "arg")
        G_removed == c.ref
        \* first loop: over the edges of G, testing the weight in G_removed
        light == {e \in Edges(g) : c.heap[G_removed].weight[e] < max_weight}
        heap1 == [c.heap EXCEPT ![G_removed] = remove_edges_from(@, light)]
        \* second loop: over G.degree_iter(), the degrees in G; remove_node takes
        \* each such node out of G_removed with the edges at it
        low == {x \in heap1["arg"].nodes : degree(heap1["arg"], x) < 2}
        heap2 == [heap1 EXCEPT ![G_removed] =
                    [nodes |-> @.nodes \ low,
                     weight |-> [e \in {f \in DOMAIN @.weight : f \cap low = {}} |-> @.weight[e]]]]
    IN  [arg |-> heap2["arg"], ret |-> Return(heap2[G_removed])]

\* ------------------------------------------------------------ state
VARIABLES
    loaded,             \* which input the caller holds: "key_codes", "matrix" or "graph"
    key_codes,          \* the per-region key code lists
    n_coactives_array,  \* the count matrix passed to the filter and the estimator
    G,                  \* the weighted graph passed to the thresholders
    call,               \* the last call: [fn, p1, p2]
    result              \* its outcome

vars == <<loaded, key_codes, n_coactives_array, G, call, result>>

Ids == 1..MaxId

\* the key code lists of one region
Collections == UNION {[1..n -> Ids] : n \in 0..MaxLen}

KeyCodeLists == UNION {[1..n -> Collections] : n \in 0..NRegions}

\* A co-activation matrix is symmetric (C[i][j] and C[j][i] count the same
\* contrasts): the n x n matrix with the counts u on and above its diagonal.
UpperCells(n) == {c \in (1..n) \X (1..n) : c[1] <= c[2]}

SymmetricMatrix(n, u) ==
    [i \in 1..n |-> [j \in 1..n |-> IF i <= j THEN u[<<i, j>>] ELSE u[<<j, i>>]]]

Pairs(n) == {e \in SUBSET (1..n) : Cardinality(e) = 2}

\* the graph on 1..n with an edge of weight w[e] wherever w[e] > 0
GraphOf(n, w) ==
    [nodes |-> 1..n, weight |-> [e \in {f \in DOMAIN w : w[f] > 0} |-> w[e]]]

Costs == {<<c, CostDen>> : c \in 0..CostDen}

EmptyGraph == [nodes |-> {}, weight |-> <<>>]

NoCall == [fn |-> "none", p1 |-> 0, p2 |-> 0]

InitKeyCodes ==
    /\ loaded = "key_codes"
    /\ key_codes \in KeyCodeLists
    /\ n_coactives_array = <<>>
    /\ G = EmptyGraph

InitMatrix ==
    /\ loaded = "matrix"
    /\ key_codes = <<>>
    /\ \E n \in 0..NRegions : \E u \in [UpperCells(n) -> 0..MaxCount] :
            n_coactives_array = SymmetricMatrix(n, u)
    /\ G = EmptyGraph

InitGraph ==
    /\ loaded = "graph"
    /\ key_codes = <<>>
    /\ n_coactives_array = <<>>
    /\ \E n \in 0..NNodes : \E w \in [Pairs(n) -> 0..MaxWeight] :
            G = GraphOf(n, w)

Idle ==
    /\ call = NoCall
    /\ result = NoResult

Init == (InitKeyCodes \/ InitMatrix \/ InitGraph) /\ Idle

BuildJaccard ==
    /\ Idle
    /\ loaded = "key_codes"
    /\ call' = [fn |-> "build_jaccard", p1 |-> 0, p2 |-> 0]
    /\ result' = Return(build_jaccard(key_codes))
    /\ UNCHANGED <<loaded, key_codes, n_coactives_array, G>>

BuildNCoactives ==
    /\ Idle
    /\ loaded = "key_codes"
    /\ call' = [fn |-> "build_n_coactives_array", p1 |-> 0, p2 |-> 0]
    /\ result' = Return(build_n_coactives_array(key_codes))
    /\ UNCHANGED <<loaded, key_codes, n_coactives_array, G>>

\* the filter is called on count data: a co-activation matrix and the number of
\* contrasts it was counted over
SignificantConnectionThreshold ==
    \E total_contrasts \in 0..MaxContrasts, t \in -1..MaxThreshold :
        /\ Idle
        /\ loaded = "matrix"
        /\ IsCountTable(n_coactives_array, total_contrasts)
        /\ LET r == significant_connection_threshold(n_coactives_array, total_contrasts, 2 * t)
           IN  /\ n_coactives_array' = r.arg
               /\ result' = r.ret
        /\ call' = [fn |-> "significant_connection_threshold",
                    p1 |-> total_contrasts, p2 |-> 2 * t]
        /\ UNCHANGED <<loaded, key_codes, G>>

BuildInfluenceMatrix ==
    /\ Idle
    /\ loaded = "matrix"
    /\ LET r == build_influence_matrix(n_coactives_array)
       IN  /\ n_coactives_array' = r.arg
           /\ result' = r.ret
    /\ call' = [fn |-> "build_influence_matrix", p1 |-> 0, p2 |-> 0]
    /\ UNCHANGED <<loaded, key_codes, G>>

ApplyCost ==
    \E cost \in Costs :
        /\ Idle
        /\ loaded = "graph"
        /\ LET r == applycost_to_g(G, cost)
           IN  /\ G' = r.arg
               /\ result' = r.ret
        /\ call' = [fn |-> "applycost_to_g", p1 |-> cost[1], p2 |-> cost[2]]
        /\ UNCHANGED <<loaded, key_codes, n_coactives_array>>

RemoveEdgesByWeight ==
    \E max_weight \in 0..(MaxWeight + 1) :
        /\ Idle
        /\ loaded = "graph"
        /\ LET r == remove_edges_by_weight(G, max_weight)
           IN  /\ G' = r.arg
               /\ result' = r.ret
        /\ call' = [fn |-> "remove_edges_by_weight", p1 |-> max_weight, p2 |-> 0]
        /\ UNCHANGED <<loaded, key_codes, n_coactives_array>>

\* the caller drops the returned value and is ready for its next call
Forget ==
    /\ ~Idle
    /\ call' = NoCall
    /\ result' = NoResult
    /\ UNCHANGED <<loaded, key_codes, n_coactives_array, G>>

Next ==
    \/ BuildJaccard
    \/ BuildNCoactives
    \/ SignificantConnectionThreshold
    \/ BuildInfluenceMatrix
    \/ ApplyCost
    \/ RemoveEdgesByWeight
    \/ Forget

Spec == Init /\ [][Next]_vars

\* the matrix builders on key code lists
InitBuilders == InitKeyCodes /\ Idle

NextBuilders ==
    \/ BuildJaccard
    \/ BuildNCoactives
    \/ Forget

SpecBuilders == InitBuilders /\ [][NextBuilders]_vars

\* the significance filter and the influence estimator on count matrices
InitMatrices == InitMatrix /\ Idle

NextMatrix ==
    \/ SignificantConnectionThreshold
    \/ BuildInfluenceMatrix
    \/ Forget

SpecMatrix == InitMatrices /\ [][NextMatrix]_vars

\* the two thresholders on graphs
InitGraphs == InitGraph /\ Idle

NextGraph ==
    \/ ApplyCost
    \/ RemoveEdgesByWeight
    \/ Forget

SpecGraph == InitGraphs /\ [][NextGraph]_vars

\* the four transforms that take an object and return a new one
InitTransforms == (InitMatrix \/ InitGraph) /\ Idle

NextTransforms ==
    \/ SignificantConnectionThreshold
    \/ BuildInfluenceMatrix
    \/ ApplyCost
    \/ RemoveEdgesByWeight
    \/ Forget

SpecTransforms == InitTransforms /\ [][NextTransforms]_vars

\* ============================================================ claims
IsBuilt(fn) == call.fn = fn /\ result.kind = "return"

\* the identifiers that occur in the list x
Occurring(x) == {u \in Ids : \E i \in DOMAIN x : x[i] = u}

IsSquare(m, n) == Len(m) = n /\ \A i \in 1..n : Len(m[i]) = n

NonZeroDiagonal(m) == \A i \in 1..Len(m) : m[i][i] # 0

IsSymmetric(m) == \A i, j \in 1..Len(m) : m[i][j] = m[j][i]

\* ------------------------------------------------------------ C1
\* floor(cost * N(N-1)/2) of the last applycost_to_g call
KeepCount == (call.p1 * ((number_of_nodes(G) * (number_of_nodes(G) - 1)) \div 2)) \div call.p2

DistinctWeights(g) == \A e, f \in Edges(g) : e # f => g.weight[e] # g.weight[f]

\* C1 (as claimed): on a graph with pairwise distinct edge weights,
\* applycost_to_g(G, cost) returns a graph with exactly
\* k = floor(cost * N(N-1)/2) edges, the k edges of largest weight.
C1_TopKEdges ==
    (call.fn = "applycost_to_g" /\ DistinctWeights(G)) =>
        /\ result.kind = "return"
        /\ Edges(result.val) \subseteq Edges(G)
        /\ Cardinality(Edges(result.val)) = KeepCount
        /\ \A e \in Edges(result.val) : \A f \in Edges(G) \ Edges(result.val) :
               G.weight[e] > G.weight[f]

\* ------------------------------------------------------------ C2
\* C2 (as claimed): applycost_to_g(G, 1.0) returns normally with the edge set
\* of G, and applycost_to_g(G, 0.0) returns normally with no edge.
C2_CostOneAndZero ==
    /\ (call.fn = "applycost_to_g" /\ call.p1 = call.p2) =>
           (result.kind = "return" /\ Edges(result.val) = Edges(G))
    /\ (call.fn = "applycost_to_g" /\ call.p1 = 0) =>
           (result.kind = "return" /\ Edges(result.val) = {})

\* ------------------------------------------------------------ C3
\* I[i][j] = <<n, d>> is the fraction num/den (den # 0)
IsFraction(q, num, den) == q[2] > 0 /\ q[1] * den = q[2] * num

\* C3 (as amended): for a square matrix C with non-zero diagonal,
\* build_influence_matrix(C) returns I with
\* I[i][j] = C[i][j]/C[i][i] - C[i][j]/C[j][j], that is
\* C[i][j] * (C[j][j] - C[i][i]) / (C[i][i] * C[j][j]): the co-activation divided by
\* the row region's own count minus the co-activation divided by the column
\* region's own count.
C3_InfluenceRowMinusColumn ==
    (call.fn = "build_influence_matrix" /\ NonZeroDiagonal(n_coactives_array)) =>
        LET C == n_coactives_array
            I == result.val
        IN  /\ result.kind = "return"
            /\ IsSquare(I, Len(C))
            /\ \A i, j \in 1..Len(C) :
                   IsFraction(I[i][j], C[i][j] * (C[j][j] - C[i][i]), C[i][i] * C[j][j])

\* C3 (as claimed): I[i][j] = C[i][j]/C[j][j] - C[i][j]/C[i][i], the column
\* region's ratio minus the row region's.
C3_InfluenceColumnMinusRow ==
    (call.fn = "build_influence_matrix" /\ NonZeroDiagonal(n_coactives_array)) =>
        LET C == n_coactives_array
            I == result.val
        IN  /\ result.kind = "return"
            /\ IsSquare(I, Len(C))
            /\ \A i, j \in 1..Len(C) :
                   IsFraction(I[i][j], C[i][j] * (C[i][i] - C[j][j]), C[i][i] * C[j][j])

\* an influence matrix of a matrix with non-zero diagonal that has a strictly
\* positive entry, so that the sign of the difference shows
C3_Witness ==
    /\ IsBuilt("build_influence_matrix")
    /\ NonZeroDiagonal(n_coactives_array)
    /\ \E i, j \in 1..Len(result.val) : result.val[i][j][1] > 0

\* ------------------------------------------------------------ C4
\* C4: for a symmetric matrix C with non-zero diagonal the influence matrix is
\* antisymmetric with a zero diagonal: I[i][j] = -I[j][i] and I[i][i] = 0.
C4_InfluenceAntisymmetric ==
    (/\ call.fn = "build_influence_matrix"
     /\ IsSymmetric(n_coactives_array)
     /\ NonZeroDiagonal(n_coactives_array)) =>
        LET I == result.val
        IN  /\ result.kind = "return"
            /\ \A i, j \in 1..Len(I) : I[i][j] = FNeg(I[j][i])
            /\ \A i \in 1..Len(I) : I[i][i] = float(0)

\* a symmetric matrix with non-zero diagonal whose influence matrix has a
\* negative entry below its diagonal
C4_Witness ==
    /\ IsBuilt("build_influence_matrix")
    /\ IsSymmetric(n_coactives_array)
    /\ NonZeroDiagonal(n_coactives_array)
    /\ \E i, j \in 1..Len(result.val) : j < i /\ result.val[i][j][1] < 0

\* ------------------------------------------------------------ C5
\* the graph the claim describes: the edges lighter than w removed, then the
\* nodes of degree < 2 in that pruned graph removed (with their edges)
PrunedThenTrimmed(g, w) ==
    LET pruned == [nodes |-> g.nodes,
                   weight |-> [e \in {f \in Edges(g) : g.weight[f] >= w} |-> g.weight[e]]]
        kept == {x \in g.nodes : degree(pruned, x) >= 2}
    IN  [nodes |-> kept,
         weight |-> [e \in {f \in Edges(pruned) : f \subseteq kept} |-> g.weight[e]]]

\* C5 (as claimed): remove_edges_by_weight(G, w) returns G with every edge of
\* weight < w removed and then every node removed whose degree in the pruned
\* graph is < 2.
C5_TrimByPrunedDegree ==
    call.fn = "remove_edges_by_weight" =>
        /\ result.kind = "return"
        /\ result.val = PrunedThenTrimmed(G, call.p1)

\* ------------------------------------------------------------ C6
\* C6 (as claimed): when significant_connection_threshold returns on a
\* symmetric co-activation matrix, the result has the diagonal of the input
\* and is symmetric.
C6_FilterKeepsDiagonalAndSymmetry ==
    (IsBuilt("significant_connection_threshold") /\ IsSymmetric(n_coactives_array)) =>
        /\ IsSquare(result.val, Len(n_coactives_array))
        /\ \A i \in 1..Len(result.val) : result.val[i][i] = n_coactives_array[i][i]
        /\ IsSymmetric(result.val)

\* ------------------------------------------------------------ C7
\* C7: build_n_coactives_array returns the N x N matrix C with C[i][j] the
\* number of distinct identifiers common to lists i and j; C is symmetric,
\* C[i][i] is the number of distinct identifiers of list i, and
\* C[i][j] <= min(C[i][i], C[j][j]).
C7_CoactivationCounts ==
    call.fn = "build_n_coactives_array" =>
        LET C == result.val
            N == Len(key_codes)
        IN  /\ result.kind = "return"
            /\ IsSquare(C, N)
            /\ \A i, j \in 1..N :
                   /\ C[i][j] = Cardinality(Occurring(key_codes[i]) \cap Occurring(key_codes[j]))
                   /\ C[i][j] = C[j][i]
                   /\ C[i][i] = Cardinality(Occurring(key_codes[i]))
                   /\ C[i][j] <= C[i][i]
                   /\ C[i][j] <= C[j][j]

\* a list that repeats an identifier, sharing some but not all identifiers
\* of another list
C7_Witness ==
    /\ IsBuilt("build_n_coactives_array")
    /\ \E i, j \in 1..Len(key_codes) :
           /\ Len(key_codes[i]) > result.val[i][i]
           /\ result.val[i][j] > 0
           /\ result.val[i][j] < result.val[j][j]

\* ------------------------------------------------------------ C8
\* C8: every entry of build_jaccard's matrix lies in [0,1] and equals
\* |A_i intersect A_j| / |A_i union A_j| (0 when the union is empty);
\* J[i][i] is 1 for a non-empty list and 0 for an empty one.
C8_JaccardEntries ==
    call.fn = "build_jaccard" =>
        LET J == result.val
            N == Len(key_codes)
        IN  /\ result.kind = "return"
            /\ IsSquare(J, N)
            /\ \A i, j \in 1..N :
                   LET both == Cardinality(Occurring(key_codes[i]) \cap Occurring(key_codes[j]))
                       either == Cardinality(Occurring(key_codes[i]) \cup Occurring(key_codes[j]))
                   IN  /\ J[i][j][2] > 0
                       /\ 0 <= J[i][j][1]
                       /\ J[i][j][1] <= J[i][j][2]
                       /\ IF either = 0 THEN J[i][j] = float(0)
                                        ELSE IsFraction(J[i][j], both, either)
            /\ \A i \in 1..N :
                   J[i][i] = IF key_codes[i] = <<>> THEN float(0) ELSE float(1)

\* a Jaccard matrix with an entry strictly between 0 and 1 and a diagonal
\* entry of 1
C8_Witness ==
    /\ IsBuilt("build_jaccard")
    /\ \E i, j \in 1..Len(key_codes) :
           /\ 0 < result.val[i][j][1]
           /\ result.val[i][j][1] < result.val[i][j][2]
           /\ result.val[i][i] = float(1)

\* ------------------------------------------------------------ C9
Transforms ==
    {"applycost_to_g", "remove_edges_by_weight",
     "significant_connection_threshold", "build_influence_matrix"}

\* C9: no call of applycost_to_g, remove_edges_by_weight,
\* significant_connection_threshold or build_influence_matrix changes the
\* graph or matrix it is passed, and every edge of a returned graph is an edge
\* of the input with the weight it has there.
C9_InputsNotMutated ==
    [][call'.fn \in Transforms =>
          /\ G' = G
          /\ n_coactives_array' = n_coactives_array
          /\ (loaded = "graph" /\ result'.kind = "return") =>
                 \A e \in Edges(result'.val) :
                     e \in Edges(G) /\ result'.val.weight[e] = G.weight[e]]_vars

\* a thresholder has returned a graph that lacks an edge of its input, which
\* still has it
C9_Witness ==
    /\ call.fn \in {"applycost_to_g", "remove_edges_by_weight"}
    /\ result.kind = "return"
    /\ Edges(result.val) # {}
    /\ Edges(G) \ Edges(result.val) # {}

\* ------------------------------------------------------------ C10
\* C10 (as claimed): on a matrix with a zero diagonal entry,
\* build_influence_matrix ends in a DegenerateStatistics error and returns no
\* matrix with a NaN or infinite entry.
C10_ZeroDiagonalRaises ==
    (call.fn = "build_influence_matrix" /\ ~NonZeroDiagonal(n_coactives_array)) =>
        /\ result.kind = "raise"
        /\ result.val = "DegenerateStatistics"
====
